---- MODULE Spec2Model ----
(***************************************************************************)
(* Model of precip_data_generation.py: a scheduler loop (main) that runs   *)
(* run_daily_task once at startup and then once per day; each run drives   *)
(* the browser (navigate_and_download_data), which may leave a new file in *)
(* the downloads directory, and then folds the most recent file of that    *)
(* directory into the master workbook (update_master_excel).               *)
(*                                                                         *)
(* Four specifications share the actions:                                  *)
(*   Spec      - the whole program from process start, short exports;      *)
(*   SpecMerge - update_master_excel applied to every master workbook a    *)
(*               first run can have written and every downloaded batch;    *)
(*   SpecLive  - the whole program under the fairness of its main loop;    *)
(*   SpecNav   - the whole program with navigate_and_download_data taken   *)
(*               step by step (session, form, checkboxes, export).         *)
(***************************************************************************)
EXTENDS Integers, Sequences, FiniteSets, TLC

\* ---------------------------------------------------------------- bounds
\* Longest batch (rows of one downloaded CSV) explored by SpecMerge.
MaxBatchLen == 2
\* Longest export (rows of one downloaded CSV) explored by Spec.
MaxExportLen == 1
\* Number of files the environment delivers into downloads/ under Spec.
MaxFiles == 2
\* Iterations of the sleep loop between two daily triggers.
SleepsPerDay == 1

\* ------------------------------------------------------------ data model
\* The three fields the navigator ticks (field_ids); the CSV's columns.
field_ids == {"Record_Date", "Record_Time", "Precipitation"}

\* Cell values of the exported table.
Dates == {1}
Times == {1, 2}
Precips == {0, 1}

\* pandas' missing value: what concat puts in a column a frame lacks.
NaN == -1

CellValues(c) ==
    IF c = "Record_Date" THEN Dates
    ELSE IF c = "Record_Time" THEN Times
    ELSE Precips

\* Headers an export can have: all ticked fields, or one field missing
\* (a checkbox that could not be selected is skipped with a warning).
Headers == {field_ids} \cup {field_ids \ {c} : c \in field_ids}

\* The headers Spec explores: the complete one, and the one of an export
\* whose Precipitation box could not be ticked.
ExportHeaders == {field_ids, field_ids \ {"Precipitation"}}

\* Sequences over S of length at most n.
SeqUpTo(S, n) == UNION {[1..k -> S] : k \in 0..n}

\* Rows a CSV with header h can hold.
RowsOver(h) ==
    {r \in [h -> Dates \cup Times \cup Precips] : \A c \in h : r[c] \in CellValues(c)}

\* Files the browser can leave in downloads/: a CSV with a header and rows,
\* or something pd.read_csv cannot parse (empty or partial download).
CsvFiles(hs, n) ==
    UNION {{[kind |-> "csv", header |-> h, lines |-> l] : l \in SeqUpTo(RowsOver(h), n)} :
              h \in hs}

Unparsable == [kind |-> "garbage"]

Artifacts == CsvFiles(Headers, MaxBatchLen) \cup {Unparsable}
Exports == CsvFiles(ExportHeaders, MaxExportLen) \cup {Unparsable}

\* ------------------------------------------------------ pandas operations
\* pd.read_csv: the header becomes the columns, each line a row.
ReadCsv(f) == [columns |-> f.header, rows |-> f.lines]

\* DataFrame.to_excel(index=False): a header row and one sheet row per frame
\* row; a NaN is written as no cell at all.
ToExcel(df) ==
    [kind |-> "xlsx",
     header |-> df.columns,
     cells |-> [i \in 1..Len(df.rows) |->
                  [c \in {d \in df.columns : df.rows[i][d] # NaN} |-> df.rows[i][c]]]]

\* pd.read_excel: the header row gives the columns, a missing cell reads NaN.
ReadExcel(w) ==
    [columns |-> w.header,
     rows |-> [i \in 1..Len(w.cells) |->
                 [c \in w.header |->
                    IF c \in DOMAIN w.cells[i] THEN w.cells[i][c] ELSE NaN]]]

\* A row widened to the columns cs, NaN where the row has no such column.
Reindex(r, cs) == [c \in cs |-> IF c \in DOMAIN r THEN r[c] ELSE NaN]

\* pd.concat([a, b]): union of the columns, a's rows then b's rows.
Concat(a, b) ==
    LET cs == a.columns \cup b.columns
    IN  [columns |-> cs,
         rows |-> [i \in 1..Len(a.rows) |-> Reindex(a.rows[i], cs)]
                  \o [i \in 1..Len(b.rows) |-> Reindex(b.rows[i], cs)]]

\* DataFrame.drop_duplicates(): a row equal in every column to an earlier row
\* is dropped; the first occurrence and the order are kept.
KeepFirst(s) ==
    LET F[i \in 0..Len(s)] ==
            IF i = 0 THEN <<>>
            ELSE IF \E j \in 1..(i - 1) : s[j] = s[i] THEN F[i - 1]
                 ELSE Append(F[i - 1], s[i])
    IN  F[Len(s)]

DropDuplicates(df) == [columns |-> df.columns, rows |-> KeepFirst(df.rows)]

\* Line 164 without the master's rows in the concatenation.
Combine_new_only(master_data, new_data) == DropDuplicates(new_data)

\* Line 164 with drop_duplicates(keep='last'): of equal rows the last stays.
Combine_keep_last(master_data, new_data) ==
    LET all == Concat(master_data, new_data)
        F[i \in 0..Len(all.rows)] ==
            IF i = 0 THEN <<>>
            ELSE IF \E j \in (i + 1)..Len(all.rows) : all.rows[j] = all.rows[i] THEN F[i - 1]
                 ELSE Append(F[i - 1], all.rows[i])
    IN  [columns |-> all.columns, rows |-> F[Len(all.rows)]]

\* Line 164: pd.concat([master_data, new_data]).drop_duplicates().reset_index(drop=True)
Combine(master_data, new_data) == DropDuplicates(Concat(master_data, new_data))

\* ------------------------------------------------------------ file states
\* The master workbook: no file, a workbook, or a file read_excel rejects.
Absent == [kind |-> "absent"]
Corrupt == [kind |-> "corrupt"]

\* Outcomes of one to_excel call: it completes, it raises before touching the
\* file, or it raises after the file was opened for writing.
WriteOutcomes == {"ok", "raise_untouched", "raise_partial"}

WriteFile(file, df, w) ==
    IF w = "ok" THEN ToExcel(df)
    ELSE IF w = "raise_untouched" THEN file
    ELSE Corrupt

\* ------------------------------------------------------------------- log
Info(m) == [level |-> "INFO", msg |-> m]
Error(m) == [level |-> "ERROR", msg |-> m]
Warning(m, field_id) == [level |-> "WARNING", msg |-> m, field |-> field_id]
Selected(field_id) == [level |-> "INFO", msg |-> "Selected checkbox", field |-> field_id]

\* find_latest_download: the file of downloads/ with the greatest ctime, or
\* None with an error logged when the directory holds no file.  The directory
\* is kept in ctime order.
None == [kind |-> "none"]

find_latest_download(dir) ==
    IF Len(dir) = 0
    THEN [file |-> None, log |-> <<Error("No files found in downloads directory")>>]
    ELSE [file |-> dir[Len(dir)], log |-> <<Info("Latest downloaded file")>>]

\* ---------------------------------------------------- update_master_excel
\* What one call did, besides its return value (ret) and the master file it
\* leaves: the log entries it wrote, the steps that failed, whether line 164
\* combined the frames, and how many times to_excel was called.

\* Lines 140-142 going on to write an empty master instead of returning.
NoDownload_writes_empty(file, found) ==
    [master |-> ToExcel([columns |-> field_ids, rows |-> <<>>]), ret |-> FALSE,
     failed |-> {"locate"}, merged |-> FALSE, writes |-> 1,
     log |-> found.log \o <<Error("No download file found to process")>>]

\* Lines 140-142: no download was found; False is returned.
NoDownload(file, found) ==
    [master |-> file, ret |-> FALSE, failed |-> {"locate"}, merged |-> FALSE,
     writes |-> 0,
     log |-> found.log \o <<Error("No download file found to process")>>]

\* The master opened for writing before line 145 reads the download.
Caught_after_truncate(file, found) ==
    [master |-> Corrupt, ret |-> FALSE, failed |-> {"parse"}, merged |-> FALSE,
     writes |-> 0,
     log |-> found.log \o <<Error("Error updating master Excel")>>]

\* Lines 145 and 171-173: pd.read_csv raises, the outer handler logs the
\* error and returns False.
Caught(file, found) ==
    [master |-> file, ret |-> FALSE, failed |-> {"parse"}, merged |-> FALSE,
     writes |-> 0,
     log |-> found.log \o <<Error("Error updating master Excel")>>]

\* Lines 149-152 and 158-161 returning True whether or not to_excel raised.
CreateNew_returns_true(file, found, new_data, w, why) ==
    [master |-> WriteFile(file, new_data, w), ret |-> TRUE,
     failed |-> (IF why = "unreadable" THEN {"load"} ELSE {})
                \cup (IF w = "ok" THEN {} ELSE {"persist"}),
     merged |-> FALSE, writes |-> 1,
     log |-> found.log \o <<Info("Successfully read downloaded data")>>]

\* Lines 149-152 and 158-161: the master is missing or unreadable; new_data
\* is written as it is.  A to_excel that raises is caught by lines 171-173.
CreateNew(file, found, new_data, w, why) ==
    [master |-> WriteFile(file, new_data, w), ret |-> (w = "ok"),
     failed |-> (IF why = "unreadable" THEN {"load"} ELSE {})
                \cup (IF w = "ok" THEN {} ELSE {"persist"}),
     merged |-> FALSE, writes |-> 1,
     log |-> found.log
             \o <<Info("Successfully read downloaded data"),
                  IF why = "unreadable"
                  THEN Error("Failed to read master file, creating new one")
                  ELSE Info("Master file not found. Creating new file.")>>
             \o (IF w = "ok" THEN <<>> ELSE <<Error("Error updating master Excel")>>)]

\* Lines 156-170 with the master saved a second time after line 168.
Update_writes_twice(file, found, new_data, w) ==
    [master |-> WriteFile(file, Combine(ReadExcel(file), new_data), w),
     ret |-> (w = "ok"), failed |-> IF w = "ok" THEN {} ELSE {"persist"},
     merged |-> TRUE, writes |-> 2,
     log |-> found.log \o <<Info("Successfully updated master")>>]

\* Lines 156-170: the master is read, combined with new_data and rewritten.
Update(file, found, new_data, w) ==
    LET master_data == ReadExcel(file)
        combined_data == Combine(master_data, new_data)
    IN  [master |-> WriteFile(file, combined_data, w), ret |-> (w = "ok"),
         failed |-> IF w = "ok" THEN {} ELSE {"persist"}, merged |-> TRUE,
         writes |-> 1,
         log |-> found.log
                 \o <<Info("Successfully read downloaded data"),
                      Info("Successfully read master data"),
                      Info("Combined data")>>
                 \o (IF w = "ok" THEN <<Info("Successfully updated master")>>
                     ELSE <<Error("Error updating master Excel")>>)]

\* The whole function, as a function of the master file, the downloads
\* directory and what the environment decides: whether read_excel succeeds
\* on an intact workbook (readOk) and how the one to_excel call ends (w).
update_master_excel(file, dir, readOk, w) ==
    LET found == find_latest_download(dir)
        latest_file == found.file
    IN  IF latest_file = None THEN NoDownload(file, found)
        ELSE IF latest_file.kind # "csv" THEN Caught(file, found)
        ELSE IF file = Absent THEN CreateNew(file, found, ReadCsv(latest_file), w, "missing")
        ELSE IF file = Corrupt \/ ~readOk
             THEN CreateNew(file, found, ReadCsv(latest_file), w, "unreadable")
        ELSE Update(file, found, ReadCsv(latest_file), w)

\* run_daily_task without its handler: the exception leaves main.
run_daily_task_uncaught(entries) == [pc |-> "crashed", log |-> entries]

\* Lines 182-183: run_daily_task catches the exception, logs it and returns
\* to main's loop.
run_daily_task_except(entries) ==
    [pc |-> "loop", log |-> entries \o <<Error("Failed to complete daily task")>>]

\* ------------------------------------------- navigate_and_download_data
\* The checkboxes of the hourly form: the three of field_ids and the form's
\* other parameters.
OtherParameters == {"Air_Temperature"}
Checkboxes == field_ids \cup OtherParameters

\* checkbox.click(): the box changes its state.
Click(bs, b) == IF b \in bs THEN bs \ {b} ELSE bs \cup {b}

\* Lines 84-87 without the is_selected test: every checkbox is clicked.
clear_checkboxes_click_all(bs) == {b \in Checkboxes : b \in Click(bs, b)}

\* Lines 84-87: each checkbox of the form that is selected is clicked.
clear_checkboxes(bs) ==
    {b \in Checkboxes : b \in (IF b \in bs THEN Click(bs, b) ELSE bs)}

\* Line 90, in the order of the list.
field_order == <<"Record_Date", "Record_Time", "Precipitation">>

\* Lines 91-98 without the try/except around a field: the first field that
\* cannot be found or clicked raises out of the loop.
select_fields_uncaught(bs, resolved) ==
    [boxes |-> bs \cup resolved,
     log |-> <<>>,
     raised |-> resolved # field_ids]

\* Lines 91-98: each field of field_ids is looked up and, when not selected,
\* clicked; a field that cannot be found or clicked (one not in resolved) is
\* skipped with a warning.
select_fields(bs, resolved) ==
    [boxes |-> {b \in Checkboxes :
                  b \in (IF b \in resolved /\ b \notin bs THEN Click(bs, b) ELSE bs)},
     log |-> [i \in 1..Len(field_order) |->
                IF field_order[i] \in resolved THEN Selected(field_order[i])
                ELSE Warning("Could not find or select checkbox", field_order[i])],
     raised |-> FALSE]

\* Line 38 recreating the directory empty.
makedirs_emptied(dir) == <<>>

\* Line 38: os.makedirs("downloads", exist_ok=True) leaves an existing
\* directory and its files as they are.
makedirs(dir) == dir

\* Lines 114-118 without the driver.quit() of line 117.
navigate_except_no_quit(s, entries) ==
    LET h == run_daily_task_except(
                 entries \o <<Error("Error during navigation and download")>>)
    IN  [session |-> s, pc |-> h.pc, log |-> h.log]

\* Lines 114-118 without the raise of line 118: run_daily_task goes on.
navigate_except_no_raise(s, entries) ==
    [session |-> IF s = "open" THEN "closed" ELSE s,
     pc |-> "update",
     log |-> entries \o <<Error("Error during navigation and download")>>]

\* Lines 114-118: the exception is logged, the driver, when there is one, is
\* quit, and the exception is raised again; run_daily_task catches it.
navigate_except(s, entries) ==
    LET h == run_daily_task_except(
                 entries \o <<Error("Error during navigation and download")>>)
    IN  [session |-> IF s = "open" THEN "closed" ELSE s, pc |-> h.pc, log |-> h.log]

\* What the site exports for the selected checkboxes bs: one record with the
\* selected columns; with nothing selected, a file without a table.
ExportOf(bs) ==
    IF bs = {} THEN Unparsable
    ELSE [kind |-> "csv", header |-> bs,
          lines |-> <<[c \in bs |-> CHOOSE v \in CellValues(c) : \A u \in CellValues(c) : v <= u]>>]

\* A download Chrome has not finished when the settle delay ends: a
\* .crdownload file, not yet a table.
Partial == [kind |-> "crdownload"]

\* ------------------------------------------------------------------ state
VARIABLES
    pc,         \* where main is: "main", "navigate", "update" (inside a run), "loop",
                \* or "crashed" once an exception has left main
    untilDue,   \* sleeps left before schedule.run_pending finds the job due
    downloads,  \* the files of downloads/, in ctime order
    master,     \* precipitation_master.xlsx
    log,        \* weather_data_scraper.log, the entries since the current run began
    ret,        \* what update_master_excel returned in the current run, or "none"
    failed,     \* the steps of the current run that failed
    merged,     \* whether the current run combined master and new data
    writes,     \* to_excel calls of the current run
    nav,        \* the last step of the form navigate_and_download_data completed
    session,    \* the Chrome driver of the current run: "none", "open", "closed"
    boxes,      \* the selected checkboxes of the hourly form
    landed      \* whether the export's file was complete when the settle delay ended

\* The navigator's variables.  SpecNav steps through the navigator; the other
\* specifications take navigate_and_download_data as one step and leave
\* these as the start of a run sets them.
navvars == <<nav, session, boxes, landed>>

vars == <<pc, untilDue, downloads, master, log, ret, failed, merged, writes,
          nav, session, boxes, landed>>

\* run_daily_task up to its first call (line 178).
RunDailyTaskBegin(before) ==
    /\ pc' = "navigate"
    /\ untilDue' = SleepsPerDay
    /\ log' = before \o <<Info("Starting daily data collection task")>>
    /\ ret' = "none"
    /\ failed' = {}
    /\ merged' = FALSE
    /\ writes' = 0
    /\ nav' = "NotStarted"
    /\ session' = "none"
    /\ boxes' = {}
    /\ landed' = FALSE
    /\ UNCHANGED <<downloads, master>>

\* main, lines 187-194: schedule the job, then run it once at startup.
Start ==
    /\ pc = "main"
    /\ RunDailyTaskBegin(<<Info("Starting weather data automation script"),
                           Info("Task scheduled to run daily at 07:00")>>)

\* main, lines 197-199: run_pending finds the job not due; sleep.
Sleep ==
    /\ pc = "loop"
    /\ untilDue > 0
    /\ untilDue' = untilDue - 1
    /\ UNCHANGED <<pc, downloads, master, log, ret, failed, merged, writes>>
    /\ UNCHANGED navvars

\* main, line 198: run_pending finds the job due and calls run_daily_task.
RunPending ==
    /\ pc = "loop"
    /\ untilDue = 0
    /\ RunDailyTaskBegin(<<>>)

\* navigate_and_download_data inside run_daily_task.  The browser either
\* fails at some step (the exception is logged, re-raised and caught by
\* run_daily_task, which ends the run), or the export is clicked and, by the
\* end of the settle delay, a new file has landed in downloads/ or has not.
NavOutcomes == {"raise", "ok_file", "ok_nofile"}

NavigateAndDownload(outcome, a) ==
    /\ pc = "navigate"
    /\ \/ /\ outcome = "raise"
          /\ LET h == run_daily_task_except(
                          log \o <<Error("Error during navigation and download")>>)
             IN  pc' = h.pc /\ log' = h.log
          /\ failed' = {"navigation"}
          /\ UNCHANGED downloads
       \/ /\ outcome = "ok_file"
          /\ Len(downloads) < MaxFiles
          /\ pc' = "update"
          /\ downloads' = Append(downloads, a)
          /\ log' = log \o <<Info("Clicked Export Data button"), Info("Chrome driver closed")>>
          /\ UNCHANGED failed
       \/ /\ outcome = "ok_nofile"
          /\ pc' = "update"
          /\ log' = log \o <<Info("Clicked Export Data button"), Info("Chrome driver closed")>>
          /\ UNCHANGED <<downloads, failed>>
    /\ UNCHANGED <<untilDue, master, ret, merged, writes>>
    /\ UNCHANGED navvars

\* update_master_excel inside run_daily_task, and the rest of run_daily_task:
\* the return value is not looked at and line 181 logs the completion.
UpdateMasterExcel(readOk, w) ==
    /\ pc = "update"
    /\ LET r == update_master_excel(master, downloads, readOk, w)
       IN  /\ master' = r.master
           /\ ret' = r.ret
           /\ failed' = r.failed
           /\ merged' = r.merged
           /\ writes' = r.writes
           /\ log' = log \o r.log \o <<Info("Daily task completed successfully")>>
    /\ pc' = "loop"
    /\ UNCHANGED <<untilDue, downloads>>
    /\ UNCHANGED navvars

Init ==
    /\ pc = "main"
    /\ untilDue = 0
    /\ downloads = <<>>
    /\ master = Absent
    /\ log = <<>>
    /\ ret = "none"
    /\ failed = {}
    /\ merged = FALSE
    /\ writes = 0
    /\ nav = "NotStarted"
    /\ session = "none"
    /\ boxes = {}
    /\ landed = FALSE

Next ==
    \/ Start
    \/ Sleep
    \/ RunPending
    \/ \E outcome \in NavOutcomes, a \in Exports : NavigateAndDownload(outcome, a)
    \/ \E readOk \in BOOLEAN, w \in WriteOutcomes : UpdateMasterExcel(readOk, w)

Spec == Init /\ [][Next]_vars

\* ------------------------------------------------------------- SpecMerge
\* update_master_excel on every pair of a master file and a downloaded
\* batch: the run has clicked the export, its file is the only one in
\* downloads/, and the master is absent or is what the first run of an
\* earlier process wrote from some batch.  Later runs find no new file and
\* fold the same batch in again.
InitialMasters == {Absent} \cup {ToExcel(ReadCsv(f)) : f \in Artifacts \ {Unparsable}}

InitMerge ==
    /\ pc = "update"
    /\ untilDue = SleepsPerDay
    /\ downloads \in {<<f>> : f \in Artifacts}
    /\ master \in InitialMasters
    /\ log = <<Info("Starting daily data collection task"),
               Info("Clicked Export Data button"), Info("Chrome driver closed")>>
    /\ ret = "none"
    /\ failed = {}
    /\ merged = FALSE
    /\ writes = 0
    /\ nav = "NotStarted"
    /\ session = "none"
    /\ boxes = {}
    /\ landed = FALSE

NextMerge ==
    \/ \E readOk \in BOOLEAN, w \in WriteOutcomes : UpdateMasterExcel(readOk, w)
    \/ Sleep
    \/ RunPending
    \/ NavigateAndDownload("ok_nofile", Unparsable)

SpecMerge == InitMerge /\ [][NextMerge]_vars

\* The same program under the fairness its scheduling gives: main is one
\* sequential thread whose every step returns (the waits are bounded, sleep
\* returns), so it keeps taking steps.  What the runs download does not
\* decide whether the next run starts; the exports are those with the
\* complete header, and unparsable files.
LiveExports == CsvFiles({field_ids}, MaxExportLen) \cup {Unparsable}

NextLive ==
    \/ Start
    \/ Sleep
    \/ RunPending
    \/ \E outcome \in NavOutcomes, a \in LiveExports : NavigateAndDownload(outcome, a)
    \/ \E readOk \in BOOLEAN, w \in WriteOutcomes : UpdateMasterExcel(readOk, w)

SpecLive == Init /\ [][NextLive]_vars /\ WF_vars(NextLive)

\* --------------------------------------------------------------- SpecNav
\* The program with navigate_and_download_data taken step by step.  nav
\* names the last step completed:
\*   PageLoaded                 lines 57-63   (get, wait for hourly-tab)
\*   PeriodGranularitySelected  lines 66-73   (Hourly tab, wait for formHourly)
\*   DurationSelected           lines 76-81   (Last 24 Hours, form updates)
\*   FieldSelectionCleared      lines 84-87
\*   RequiredFieldsSelected     lines 90-98
\*   ExportTriggered            lines 101-103
\*   DownloadPending            line 106      (the settle delay)
\*   Done                       lines 109-113 (quit, return)
\* A selenium call that raises, or a wait that times out, ends the step in
\* the handler of lines 114-118.

\* The step in progress raised after logging entries.
NavRaise(entries) ==
    /\ LET h == navigate_except(session, log \o entries)
       IN  pc' = h.pc /\ log' = h.log /\ session' = h.session
    /\ failed' = {"navigation"}
    /\ UNCHANGED <<untilDue, downloads, master, ret, merged, writes, nav, boxes, landed>>

\* The step in progress completed: nav moves on, entries are logged.
NavStep(to, entries) ==
    /\ nav' = to
    /\ log' = log \o entries
    /\ UNCHANGED <<pc, untilDue, master, ret, failed, merged, writes>>

\* Line 53: setup_driver creates the downloads directory and the driver, or
\* logs and raises (lines 46-48).
SetupDriver(ok) ==
    /\ pc = "navigate" /\ session = "none" /\ nav = "NotStarted"
    /\ IF ok
       THEN /\ session' = "open"
            /\ downloads' = makedirs(downloads)
            /\ UNCHANGED <<pc, untilDue, master, log, ret, failed, merged, writes,
                           nav, boxes, landed>>
       ELSE NavRaise(<<Error("Failed to set up driver")>>)

\* Lines 57-63: driver.get, then the wait for the hourly tab (20 s).
LoadOutcomes == {"ok", "get_raises", "timeout"}

LoadPage(outcome) ==
    /\ pc = "navigate" /\ session = "open" /\ nav = "NotStarted"
    /\ \/ /\ outcome = "ok"
          /\ NavStep("PageLoaded", <<Info("Successfully navigated")>>)
          /\ UNCHANGED <<downloads, session, boxes, landed>>
       \/ /\ outcome = "get_raises"
          /\ NavRaise(<<>>)
       \/ /\ outcome = "timeout"
          /\ NavRaise(<<Info("Successfully navigated")>>)

\* Lines 66-73: the Hourly tab is clicked, then the wait for the form (10 s).
SelectHourly(ok) ==
    /\ pc = "navigate" /\ nav = "PageLoaded"
    /\ IF ok
       THEN /\ NavStep("PeriodGranularitySelected", <<Info("Clicked on Hourly tab")>>)
            /\ UNCHANGED <<downloads, session, boxes, landed>>
       ELSE NavRaise(<<Info("Clicked on Hourly tab")>>)

\* Lines 76-81: "Last 24 Hours" is selected and the form updates; bs are the
\* checkboxes the updated form shows selected.
SelectDuration(ok, bs) ==
    /\ pc = "navigate" /\ nav = "PeriodGranularitySelected"
    /\ IF ok
       THEN /\ NavStep("DurationSelected", <<Info("Selected 'Last 24 Hours'")>>)
            /\ boxes' = bs
            /\ UNCHANGED <<downloads, session, landed>>
       ELSE NavRaise(<<>>)

\* Lines 84-87.
ClearFields(ok) ==
    /\ pc = "navigate" /\ nav = "DurationSelected"
    /\ IF ok
       THEN /\ NavStep("FieldSelectionCleared", <<>>)
            /\ boxes' = clear_checkboxes(boxes)
            /\ UNCHANGED <<downloads, session, landed>>
       ELSE NavRaise(<<>>)

\* Lines 90-98; resolved are the fields the page lets the loop find and click.
SelectRequiredFields(resolved) ==
    /\ pc = "navigate" /\ nav = "FieldSelectionCleared"
    /\ LET r == select_fields(boxes, resolved)
       IN  IF r.raised
           THEN NavRaise(r.log)
           ELSE /\ NavStep("RequiredFieldsSelected", r.log)
                /\ boxes' = r.boxes
                /\ UNCHANGED <<downloads, session, landed>>

\* Lines 101-103.
TriggerExport(ok) ==
    /\ pc = "navigate" /\ nav = "RequiredFieldsSelected"
    /\ IF ok
       THEN /\ NavStep("ExportTriggered", <<Info("Clicked Export Data button")>>)
            /\ UNCHANGED <<downloads, session, boxes, landed>>
       ELSE NavRaise(<<>>)

\* Line 106: the five seconds in which the browser downloads what the site
\* exports.  At their end the file is in downloads/, or is there in part, or
\* is not there.
DownloadOutcomes == {"landed", "partial", "none"}

WaitForDownload(outcome) ==
    /\ pc = "navigate" /\ nav = "ExportTriggered"
    /\ NavStep("DownloadPending", <<>>)
    /\ \/ /\ outcome = "landed"
          /\ Len(downloads) < MaxFiles
          /\ downloads' = Append(downloads, ExportOf(boxes))
          /\ landed' = TRUE
       \/ /\ outcome = "partial"
          /\ Len(downloads) < MaxFiles
          /\ downloads' = Append(downloads, Partial)
          /\ landed' = FALSE
       \/ /\ outcome = "none"
          /\ UNCHANGED <<downloads, landed>>
    /\ UNCHANGED <<session, boxes>>

\* Lines 109-113: the driver is quit and the function returns;
\* run_daily_task goes on to update_master_excel.
CloseDriver ==
    /\ pc = "navigate" /\ nav = "DownloadPending"
    /\ nav' = "Done"
    /\ session' = "closed"
    /\ log' = log \o <<Info("Chrome driver closed")>>
    /\ pc' = "update"
    /\ UNCHANGED <<untilDue, downloads, master, ret, failed, merged, writes, boxes, landed>>

NextNav ==
    \/ Start
    \/ Sleep
    \/ RunPending
    \/ \E ok \in BOOLEAN : SetupDriver(ok)
    \/ \E outcome \in LoadOutcomes : LoadPage(outcome)
    \/ \E ok \in BOOLEAN : SelectHourly(ok)
    \/ \E ok \in BOOLEAN, bs \in SUBSET Checkboxes : SelectDuration(ok, bs)
    \/ \E ok \in BOOLEAN : ClearFields(ok)
    \/ \E resolved \in SUBSET field_ids : SelectRequiredFields(resolved)
    \/ \E ok \in BOOLEAN : TriggerExport(ok)
    \/ \E outcome \in DownloadOutcomes : WaitForDownload(outcome)
    \/ CloseDriver
    \/ \E readOk \in BOOLEAN, w \in WriteOutcomes : UpdateMasterExcel(readOk, w)

SpecNav == Init /\ [][NextNav]_vars

\* ------------------------------------------------ vocabulary of the claims
Cell(r, c) == IF c \in DOMAIN r THEN r[c] ELSE NaN

\* The composite timestamp key of a row: its date, then its time.
Ts(r) == <<Cell(r, "Record_Date"), Cell(r, "Record_Time")>>

TsLess(a, b) == a[1] < b[1] \/ (a[1] = b[1] /\ a[2] < b[2])

StrictlyAscending(rows) ==
    \A i, j \in 1..Len(rows) : i < j => TsLess(Ts(rows[i]), Ts(rows[j]))

\* The rows a workbook holds; no rows when there is no readable workbook.
RowsOf(file) == IF file.kind = "xlsx" THEN ReadExcel(file).rows ELSE <<>>

ColumnsOf(file) == IF file.kind = "xlsx" THEN file.header ELSE {}

\* The file update_master_excel reads in the current run.
Latest == downloads[Len(downloads)]

HasBatch == Len(downloads) > 0 /\ Latest.kind = "csv"

BatchRows == IF HasBatch THEN ReadCsv(Latest).rows ELSE <<>>

InLog(e) == \E i \in 1..Len(log) : log[i] = e

Success == Info("Daily task completed successfully")

\* Deduplication by timestamp in which the later record wins, and the
\* ascending sort of rows with distinct timestamps.
KeepLastByTs(rows) ==
    LET F[i \in 0..Len(rows)] ==
            IF i = 0 THEN <<>>
            ELSE IF \E j \in (i + 1)..Len(rows) : Ts(rows[j]) = Ts(rows[i]) THEN F[i - 1]
                 ELSE Append(F[i - 1], rows[i])
    IN  F[Len(rows)]

SortByTs(rows) ==
    CHOOSE t \in [1..Len(rows) -> {rows[i] : i \in 1..Len(rows)}] :
        /\ {t[i] : i \in 1..Len(rows)} = {rows[i] : i \in 1..Len(rows)}
        /\ StrictlyAscending(t)

\* ------------------------------------------------------------------ claims

\* C1: ingesting the same batch a second time leaves the master as the first
\* ingestion wrote it, whatever the master was before, absent included.
\* Stated at the end of a run in which nothing failed and which wrote the
\* master from a batch with all three columns: running update_master_excel
\* again on the same downloads changes nothing.
C1_Idempotent ==
    (pc = "loop" /\ ret = TRUE /\ failed = {} /\ Latest.header = field_ids)
        => update_master_excel(master, downloads, TRUE, "ok").master = master

\* C2: the persisted master never holds two records with one timestamp and
\* is strictly ascending by timestamp.  Stated for the masters that hold all
\* three columns in every record.
Complete(rows) == \A i \in 1..Len(rows) : \A c \in field_ids : Cell(rows[i], c) # NaN

C2_UniqueAscending ==
    (master.kind = "xlsx" /\ Complete(RowsOf(master))) => StrictlyAscending(RowsOf(master))

\* C3: when the master holds a record at t with precipitation p1 and the
\* batch's record at t has p2 # p1, the master written by the run holds
\* exactly one record at t, with precipitation p2.
C3_Override ==
    [][(pc = "update" /\ ret' = TRUE) =>
          \A i \in 1..Len(RowsOf(master)), j \in 1..Len(BatchRows) :
             LET old == RowsOf(master)[i]
                 new == BatchRows[j]
                 at == {k \in 1..Len(RowsOf(master')) : Ts(RowsOf(master')[k]) = Ts(new)}
             IN  (/\ Cell(old, "Precipitation") # NaN
                  /\ Cell(new, "Precipitation") # NaN
                  /\ Ts(old) = Ts(new)
                  /\ Cell(old, "Precipitation") # Cell(new, "Precipitation")
                  /\ \A l \in (j + 1)..Len(BatchRows) : Ts(BatchRows[l]) # Ts(new))
                 => /\ Cardinality(at) = 1
                    /\ \A k \in at : Cell(RowsOf(master')[k], "Precipitation") = Cell(new, "Precipitation")
      ]_vars

\* C4 as claimed: a run in which navigation, locating the download, parsing
\* it or loading the existing master failed leaves the master file as it was.
\* Stated step by step: a step that changes the master is the last step of a
\* run in which none of these failed.  (Stated for a master that holds records
\* before the step; steps whose own write failed are left out, so that what
\* refutes the claim is a step before persistence.)
C4_AllOrNothing ==
    [][(master' # master /\ "persist" \notin failed' /\ Len(RowsOf(master)) > 0) =>
          (pc = "update" /\ failed' \cap {"navigation", "locate", "parse", "load"} = {})
      ]_vars

\* C4 as amended: a run in which navigation, locating the download or
\* parsing it failed leaves the master file as it was (a step that changes
\* the master is the last step of a run in which none of these failed); a
\* run that cannot load the existing master is not covered.
C4_UntouchedBeforeLoad ==
    [][master' # master =>
          (pc = "update" /\ failed' \cap {"navigation", "locate", "parse"} = {})
      ]_vars

\* A run found a master with rows in it, could not parse the download and
\* has ended.
C4_Witness ==
    pc = "loop" /\ "parse" \in failed /\ Len(RowsOf(master)) > 0

\* C5: every record of the existing master whose timestamp is not in the
\* batch is in the master the merging run writes, its values unchanged (a
\* column only the batch has reads NaN in it).
C5_Preservation ==
    [][(pc = "update" /\ merged' /\ ret' = TRUE) =>
          \A i \in 1..Len(RowsOf(master)) :
             LET old == RowsOf(master)[i]
             IN  (\A j \in 1..Len(BatchRows) : Ts(BatchRows[j]) # Ts(old))
                 => \E k \in 1..Len(RowsOf(master')) :
                       RowsOf(master')[k] = Reindex(old, ColumnsOf(master'))
      ]_vars

\* A merging run has written a master that holds a record at a timestamp the
\* batch does not have, next to records of the batch.
C5_Witness ==
    /\ pc = "loop" /\ merged /\ ret = TRUE
    /\ Len(BatchRows) > 0
    /\ \E k \in 1..Len(RowsOf(master)) :
          \A j \in 1..Len(BatchRows) : Ts(BatchRows[j]) # Ts(RowsOf(master)[k])

\* C6: with no master file, the master the run writes is the batch
\* deduplicated by timestamp and sorted ascending.  Stated for the batches
\* with all three columns.
C6_Bootstrap ==
    [][(pc = "update" /\ master = Absent /\ ret' = TRUE /\ Latest.header = field_ids) =>
          RowsOf(master') = SortByTs(KeepLastByTs(BatchRows))
      ]_vars

\* C7: a download without one of the three mandatory columns fails parsing:
\* nothing is merged and the master file is as before.  Stated for the
\* downloads that hold rows.
C7_MalformedArtifact ==
    [][(pc = "update" /\ Len(BatchRows) > 0 /\ Latest.header # field_ids) =>
          (master' = master /\ ~merged' /\ "parse" \in failed')
      ]_vars

\* C8: with no file in downloads/ when update_master_excel looks, no
\* artifact is reported, nothing is merged or written, an error is logged,
\* and the next scheduled run starts the pipeline again.
C8_NoArtifact ==
    /\ [][(pc = "update" /\ downloads = <<>>) =>
             /\ find_latest_download(downloads).file = None
             /\ master' = master /\ ~merged' /\ writes' = 0
             /\ ret' = FALSE /\ "locate" \in failed'
             /\ \E i \in 1..Len(log') : log'[i].level = "ERROR"
             /\ pc' = "loop"
         ]_vars
    /\ (pc = "loop" /\ "locate" \in failed) ~> (pc = "navigate" /\ failed = {})

\* A scheduled run (not the one at startup) has ended without a download to
\* process: the runs before it left no file either, and it still ran.
C8_Witness ==
    /\ pc = "loop" /\ "locate" \in failed
    /\ log[1] = Info("Starting daily data collection task")

\* C9: a run in which navigation, locating, parsing or persisting failed is
\* not logged as a completed task.
C9_FailureNotSuccess ==
    failed \cap {"navigation", "locate", "parse", "persist"} # {} => ~InLog(Success)

\* C10: no exception leaves run_daily_task, and after a failed run the
\* scheduler starts the next run from the beginning of the pipeline.
C10_RunsIndependent ==
    /\ [](pc # "crashed")
    /\ (pc = "loop" /\ failed # {}) ~> (pc = "navigate" /\ failed = {})

\* A scheduled run is starting although every run before it failed before a
\* download was in place.
C10_Witness ==
    /\ pc = "navigate" /\ failed = {}
    /\ log = <<Info("Starting daily data collection task")>>
    /\ downloads = <<>>

\* C11: a write of the master that fails part-way leaves the master file as
\* it was before the run.  Stated step by step for a master that holds
\* complete records and was loaded and merged: the step of a run whose
\* to_excel call raised does not change the master file.
C11_FailedWriteLeavesMaster ==
    [][(/\ pc = "update" /\ "persist" \in failed' /\ merged'
        /\ Len(RowsOf(master)) > 0 /\ Complete(RowsOf(master))) =>
          master' = master
      ]_vars

\* C12 as claimed: a run writes the master at most once, and only after the
\* existing master was loaded and merged with the batch.  Stated for the runs
\* that find a master workbook of complete records and a download that holds
\* records with all three columns.
C12_WriteOnlyAfterMerge ==
    [][(/\ pc = "update" /\ Len(RowsOf(master)) > 0 /\ Complete(RowsOf(master))
        /\ Len(BatchRows) > 0 /\ Latest.header = field_ids) =>
          (writes' <= 1 /\ (writes' > 0 => merged'))
      ]_vars

\* C12 as amended: a run writes the master at most once; the write comes
\* after the existing master was loaded and merged with the batch, except
\* when the master file is missing or cannot be read, where the batch is
\* written as it is.
C12_WriteOnce ==
    [][pc = "update" =>
          /\ writes' <= 1
          /\ (writes' > 0 /\ ~merged') => (master = Absent \/ "load" \in failed')
          /\ merged' => (master.kind = "xlsx" /\ "load" \notin failed' /\ writes' = 1)
      ]_vars

\* A run found a master with records, merged the batch into it and wrote the
\* result, once.
C12_Witness ==
    pc = "loop" /\ merged /\ writes = 1 /\ ret = TRUE /\ Len(RowsOf(master)) > 0

\* C13: once the driver was acquired, every way out of
\* navigate_and_download_data releases it: no driver is open while the run
\* is past navigation, between runs, or when the next run begins.
C13_SessionReleased ==
    /\ [](session = "open" => pc = "navigate")
    /\ [][(session = "open" /\ pc' # "navigate") => session' = "closed"]_vars

\* The export button was not found: the handler quit the driver and the run
\* ended.
C13_Witness ==
    /\ pc = "loop" /\ "navigation" \in failed
    /\ nav = "RequiredFieldsSelected" /\ session = "closed"

\* The files of downloads/ the extension filter lets through: the .csv files,
\* with a table or not; a .crdownload file is not one.
MatchesFilter(f) == f.kind \in {"csv", "garbage"}

\* C14: the locator returns the most recently created file among those that
\* match the extension filter, never a file that does not match.  Stated for
\* the moment update_master_excel calls it, when the newest matching file
\* of downloads/ is a CSV with all three columns.
C14_LatestMatching ==
    LET matching == {i \in 1..Len(downloads) : MatchesFilter(downloads[i])}
        newest == downloads[CHOOSE i \in matching : \A j \in matching : j <= i]
    IN  (/\ pc = "update" /\ matching # {}
         /\ newest.kind = "csv" /\ newest.header = field_ids)
        => find_latest_download(downloads).file = newest

\* The navigator's states in their order.
NavOrder ==
    <<"NotStarted", "PageLoaded", "PeriodGranularitySelected", "DurationSelected",
      "FieldSelectionCleared", "RequiredFieldsSelected", "ExportTriggered",
      "DownloadPending", "Done">>

Rank(n) == CHOOSE i \in 1..Len(NavOrder) : NavOrder[i] = n

\* C15: within a run the navigator moves from each state to the next in the
\* order and to no other; once a step has failed (a timed out wait included)
\* no later state is entered, the export is not triggered, and the run does
\* not locate, parse, merge or persist: update_master_excel is not called and
\* the master stays as it was.
C15_FixedOrder ==
    /\ [][nav' # nav =>
             \/ Rank(nav') = Rank(nav) + 1
             \/ (nav' = "NotStarted" /\ pc \in {"main", "loop"} /\ pc' = "navigate")
         ]_vars
    /\ []("navigation" \in failed =>
             /\ pc = "loop"
             /\ Rank(nav) < Rank("ExportTriggered")
             /\ ret = "none" /\ ~merged /\ writes = 0
             /\ \A i \in 1..Len(log) : log[i] # Info("Clicked Export Data button"))
    /\ [][("navigation" \in failed \/ "navigation" \in failed') => master' = master]_vars

\* The wait for the hourly form timed out in a run that found a master with
\* records: the navigator stopped at PageLoaded and the run ended there.
C15_Witness ==
    /\ pc = "loop" /\ "navigation" \in failed
    /\ nav = "PageLoaded"
    /\ Len(RowsOf(master)) > 0

\* C16: the locator does not look at when the file was created relative to
\* the run: in a run whose export left no complete file, with a master that
\* an earlier run wrote, a file is still located, it is the newest file of
\* downloads/, and when the run writes the master the file's records are in
\* it.
C16_StaleArtifactAccepted ==
    [][(pc = "update" /\ ~landed /\ master.kind = "xlsx") =>
          /\ "locate" \notin failed'
          /\ Len(downloads) > 0
          /\ find_latest_download(downloads).file = Latest
          /\ (merged' /\ ret' = TRUE) =>
                \A j \in 1..Len(BatchRows) : \E k \in 1..Len(RowsOf(master')) :
                   RowsOf(master')[k] = Reindex(BatchRows[j], ColumnsOf(master'))
      ]_vars

\* A run's export left no file, the locator returned the CSV of an earlier
\* run, and the run merged it into the master and logged success.
C16_Witness ==
    /\ pc = "loop" /\ nav = "Done" /\ ~landed
    /\ merged /\ ret = TRUE /\ HasBatch
    /\ InLog(Success)

\* C17: whatever checkboxes the form shows selected, after the clearing step
\* none is selected; from the selection of the required fields on, the
\* selected checkboxes are exactly the required fields the loop found and
\* clicked (those logged as selected).
C17_ClearedThenRequired ==
    /\ [][(nav = "DurationSelected" /\ nav' = "FieldSelectionCleared") => boxes' = {}]_vars
    /\ [](nav = "FieldSelectionCleared" => boxes = {})
    /\ [](Rank(nav) >= Rank("RequiredFieldsSelected") =>
             /\ boxes \subseteq field_ids
             /\ boxes = {f \in Checkboxes : InLog(Selected(f))})

\* The export was triggered with the three required fields selected.
C17_Witness ==
    /\ nav = "ExportTriggered" /\ boxes = field_ids
    /\ InLog(Info("Clicked Export Data button"))

\* C18: a required field that cannot be found or clicked does not end the
\* navigation: the step after the clearing is the completed selection loop,
\* in which every field of field_ids was attempted (it is logged as selected
\* and is selected, or a warning names it and it is not), nothing failed,
\* the driver is open, and the export step can be taken.
C18_FieldFailureNonFatal ==
    /\ [][(pc = "navigate" /\ nav = "FieldSelectionCleared") =>
             /\ nav' = "RequiredFieldsSelected"
             /\ pc' = "navigate" /\ failed' = {} /\ session' = "open"
             /\ \A f \in field_ids :
                   \/ /\ f \in boxes'
                      /\ \E i \in 1..Len(log') : log'[i] = Selected(f)
                   \/ /\ f \notin boxes'
                      /\ \E i \in 1..Len(log') :
                            log'[i] = Warning("Could not find or select checkbox", f)
         ]_vars
    /\ []((pc = "navigate" /\ nav = "RequiredFieldsSelected") => ENABLED TriggerExport(TRUE))

\* The Precipitation checkbox could not be selected; the warning is in the
\* log, the other two fields are selected and the export was triggered.
C18_Witness ==
    /\ nav = "ExportTriggered"
    /\ InLog(Warning("Could not find or select checkbox", "Precipitation"))
    /\ boxes = {"Record_Date", "Record_Time"}
    /\ InLog(Info("Clicked Export Data button"))

\* The rows of s that equal no earlier row of s, in the order of s.
FirstOccurrences(s) ==
    LET keep == {i \in 1..Len(s) : \A j \in 1..(i - 1) : s[j] # s[i]}
    IN  [k \in 1..Cardinality(keep) |->
            s[CHOOSE i \in keep : Cardinality({j \in keep : j < i}) = k - 1]]

\* C19: when the existing master is readable, the master the run writes
\* holds the master's rows followed by the batch's rows, without the rows
\* equal in every column to an earlier one (first occurrence kept, order
\* kept, nothing sorted); every row of the master before is a row of the
\* master after.
C19_ConcatKeepFirst ==
    [][(pc = "update" /\ merged' /\ ret' = TRUE) =>
          LET cols == ColumnsOf(master) \cup Latest.header
              old == RowsOf(master)
              all == [i \in 1..(Len(old) + Len(BatchRows)) |->
                        Reindex(IF i <= Len(old) THEN old[i] ELSE BatchRows[i - Len(old)],
                                cols)]
              out == RowsOf(master')
          IN  /\ ColumnsOf(master') = cols
              /\ out = FirstOccurrences(all)
              /\ \A i \in 1..Len(old) : \E k \in 1..Len(out) : out[k] = Reindex(old[i], cols)
      ]_vars

\* A merging run wrote a master in which a row of the batch that was already
\* in the master was dropped and a row that was not was added at the end, out
\* of timestamp order.
C19_Witness ==
    /\ pc = "loop" /\ merged /\ ret = TRUE
    /\ Len(BatchRows) = 2
    /\ Len(RowsOf(master)) = 2
    /\ RowsOf(master)[2] \in {BatchRows[1], BatchRows[2]}
    /\ RowsOf(master)[1] \in {BatchRows[1], BatchRows[2]}
    /\ Latest.header = field_ids
    /\ TsLess(Ts(RowsOf(master)[2]), Ts(RowsOf(master)[1]))

\* C20: update_master_excel never raises; it returns True exactly when a
\* to_excel call of the master completed in the call, and False when no
\* download was found, the download could not be read or the write failed.
C20_TrueIffWritten ==
    [][pc = "update" =>
          /\ pc' = "loop"
          /\ ret' \in BOOLEAN
          /\ (ret' = TRUE) <=> (writes' = 1 /\ "persist" \notin failed')
          /\ (ret' = TRUE) => master'.kind = "xlsx"
          /\ (ret' = FALSE) <=> (failed' \cap {"locate", "parse", "persist"} # {})
      ]_vars

\* A call whose to_excel raised returned False and the run went on to its end.
C20_Witness ==
    pc = "loop" /\ "persist" \in failed /\ writes = 1 /\ ret = FALSE

====
